---------------------------- MODULE Spec2Model ----------------------------
(***************************************************************************)
(* Entity canonicalisation and proximity-ranked retrieval:                 *)
(*   - the API server's two relationship queries (api_server.ts, carried   *)
(*     in src/README.md from line 98 on),                                  *)
(*   - the hop-distance rebuild script (src/fix_hop_distances.ts),         *)
(*   - the duplicate-triple removal script (src/dedupe_triples.ts).        *)
(*                                                                         *)
(* The database is two tables.  rdf_triples is a set of rows with unique   *)
(* integer ids; entity_aliases is a function from original_name (its       *)
(* primary key) to the rest of the row.  A nullable column holds <<>> for  *)
(* SQL NULL and <<v>> for the value v.  Timestamps are ISO date strings in *)
(* the program and are compared as strings; the model keeps the year, on   *)
(* which that comparison agrees with the numeric one.                      *)
(***************************************************************************)
EXTENDS Integers, Sequences, FiniteSets, TLC

VARIABLES
    rdf_triples,      \* table rdf_triples: set of rows
    entity_aliases,   \* table entity_aliases: original_name -> row
    phase,            \* which program is running and where it stands
    response,         \* last HTTP response of the API server, with its request
    canonicalMap,     \* fix_hop_distances.ts: Map name -> canonical name
    hopDistances,     \* fix_hop_distances.ts: Map canonical name -> distance
    canonicalNames,   \* fix_hop_distances.ts: Set of canonical names
    pending,          \* rows the running script still has to write/delete
    startAliases,     \* entity_aliases as it was when the rebuild started
    observed,         \* what a concurrent reader of entity_aliases has seen
    consoleLog,       \* fix_hop_distances.ts: the warnings written by console.log
    adjacencyList,    \* fix_hop_distances.ts: Map canonical name -> neighbours
    startTriples,     \* rdf_triples as it was when the running script started
    other,            \* a second fix_hop_distances.ts process: its position and
                      \* its canonicalMap, canonicalNames, hopDistances, pending
    now,              \* API server: Date.now(), in ticks
    requestCounts,    \* API server: Map ip -> {count, resetTime} of the limiter
    requestLog,       \* the requests that reached the limiter, with what it did
    hopQueue,         \* fix_hop_distances.ts: queue of the BFS, where the model
                      \* runs the loop step by step
    hopVisited,       \* fix_hop_distances.ts: visited of the BFS, likewise
    canonical_entities, \* table: canonical_name -> hop_distance_from_principal
    split             \* a call of splitText: its arguments, its locals (remaining,
                      \* partNum, parts, partIds) and its position

vars == <<rdf_triples, entity_aliases, phase, response, canonicalMap,
          canonicalNames, hopDistances, pending, startAliases, observed,
          consoleLog, adjacencyList, startTriples,
          other, now, requestCounts, requestLog,
          hopQueue, hopVisited, canonical_entities, split>>

-----------------------------------------------------------------------------
(* Bounds of the model *)

\* most rows of rdf_triples in an initial database
MaxFacts == 3

\* MAX_DB_LIMIT of the bounded query is 50000 in the source; the model keeps
\* the ceiling but scales it so that a table of MaxFacts rows can exceed it
MAX_DB_LIMIT == 2

(* Program constants *)
PRINCIPAL == "Jeffrey Epstein"
EPSTEIN_NAME == "Jeffrey Epstein"
DISCONNECTED_HOP_DISTANCE == 1000
\* JavaScript's Infinity: larger than every distance a BFS can assign
Infinity == 1000000
DateFloor == 1970
DefaultLimit == 500
LimitCap == 20000
ClusterCap == 50

NULL == <<>>
Some(v) == <<v>>
IsNull(x) == x = <<>>
Val(x) == x[1]

Min2(a, b) == IF a <= b THEN a ELSE b
Max2(a, b) == IF a >= b THEN a ELSE b

-----------------------------------------------------------------------------
(* Generic helpers over sequences *)

Range(s) == {s[i] : i \in DOMAIN s}

\* Array.prototype.filter, with the predicate given as the set of kept values
SeqFilter(s, keep) ==
    LET Kept(x) == x \in keep
    IN SelectSeq(s, Kept)

Take(s, n) == SubSeq(s, 1, Min2(n, Len(s)))

RECURSIVE InsertStable(_, _, _)
\* insert x after every element whose rank is <= rank[x] (keeps equal ranks
\* in arrival order)
InsertStable(sorted, x, rank) ==
    IF sorted = <<>> THEN <<x>>
    ELSE IF rank[Head(sorted)] <= rank[x]
         THEN <<Head(sorted)>> \o InsertStable(Tail(sorted), x, rank)
         ELSE <<x>> \o sorted

RECURSIVE StableSort(_, _)
\* a stable sort by ascending rank, rank being a function on the elements
StableSort(s, rank) ==
    IF s = <<>> THEN <<>>
    ELSE InsertStable(StableSort(SubSeq(s, 1, Len(s) - 1), rank), s[Len(s)], rank)

RECURSIVE RowsById(_)
\* the rows of a table in ascending id (rowid) order
RowsById(T) ==
    IF T = {} THEN <<>>
    ELSE LET r == CHOOSE x \in T : \A y \in T : x.id <= y.id
         IN <<r>> \o RowsById(T \ {r})

-----------------------------------------------------------------------------
(* Data universe of the model *)

\* the entity names of the model, in the order SQLite's BINARY collation puts
\* them (the order in which a UNION hands them out)
NamesSorted == <<"A", "B", "J. Epstein", "Jeff E.", "Jeffrey Epstein">>
Names == {NamesSorted[i] : i \in DOMAIN NamesSorted}

\* tag_clusters.json, loaded once at start-up: cluster id -> tags
tagClusters ==
    << [id |-> 0, tags |-> {"legal"}], [id |-> 1, tags |-> {"travel"}] >>

\* JSON.parse on the triple_tags payloads that occur in the model: an array
\* of tags, or a SyntaxError for a payload that is not JSON
JSONParse(text) ==
    CASE text = "[legal]"  -> [ok |-> TRUE, value |-> <<"legal">>]
      [] text = "[travel]" -> [ok |-> TRUE, value |-> <<"travel">>]
      [] text = "[]"       -> [ok |-> TRUE, value |-> <<>>]
      [] OTHER             -> [ok |-> FALSE, value |-> <<>>]

-----------------------------------------------------------------------------
(* Document splitting.  A string is the sequence of its UTF-16 code units;  *)
(* indexes are those of JavaScript, from 0.                                 *)

\* MAX_CHARS is 100000 in the source and the window in which splitText looks
\* for a break the last 1000 characters before MAX_CHARS; the model keeps the
\* function and scales both
MAX_CHARS == 5
SearchWindow == 4

\* longest text of the model
MaxText == 11

LF == "\n"
Chars == {"a", LF}

\* s.substring(start, end) for 0 <= start <= end
Substring(s, start, end) ==
    SubSeq(s, Min2(start, Len(s)) + 1, Min2(end, Len(s)))

\* s.substring(start)
SubstringFrom(s, start) == Substring(s, start, Len(s))

\* s.lastIndexOf(pattern): the last index at which pattern occurs, else -1
LastIndexOf(s, pattern) ==
    LET hits == {i \in 0..(Len(s) - Len(pattern)) :
                   SubSeq(s, i + 1, i + Len(pattern)) = pattern}
    IN IF hits = {} THEN -1 ELSE CHOOSE i \in hits : \A j \in hits : j <= i

\* the split point as it would be with let splitPoint = MAX_CHARS + 1
SplitPointPastLimit(remaining) ==
    LET searchStart == Max2(0, MAX_CHARS - SearchWindow)
        searchText == Substring(remaining, searchStart, MAX_CHARS)
        paragraphBreak == LastIndexOf(searchText, <<LF, LF>>)
        lineBreak == LastIndexOf(searchText, <<LF>>)
    IN IF paragraphBreak # -1 THEN searchStart + paragraphBreak + 2
       ELSE IF lineBreak # -1 THEN searchStart + lineBreak + 1
       ELSE MAX_CHARS + 1

\* splitPoint of one iteration: after the last paragraph break of the
\* window, else after its last line break, else MAX_CHARS
SplitPoint(remaining) ==
    LET searchStart == Max2(0, MAX_CHARS - SearchWindow)
        searchText == Substring(remaining, searchStart, MAX_CHARS)
        paragraphBreak == LastIndexOf(searchText, <<LF, LF>>)
        lineBreak == LastIndexOf(searchText, <<LF>>)
    IN IF paragraphBreak # -1 THEN searchStart + paragraphBreak + 2
       ELSE IF lineBreak # -1 THEN searchStart + lineBreak + 1
       ELSE MAX_CHARS

\* the template literal docId_part<partNum>
PartId(docId, partNum) == docId \o "_part" \o ToString(partNum)

-----------------------------------------------------------------------------
(* API server: the rate limiting middleware *)

\* RATE_LIMIT_MAX_REQUESTS is 1000 and RATE_LIMIT_WINDOW 15 * 60 * 1000 ms
\* in the source; the model keeps the middleware and scales both, the window
\* to ticks of Date.now()
RATE_LIMIT_MAX_REQUESTS == 2
RATE_LIMIT_WINDOW == 2

\* most ticks of the clock and most requests of a run of the model
MaxTime == 5
MaxRequests == 5

\* req.ip of the clients of the model
ClientIps == {"10.0.0.1", "10.0.0.2"}

\* the middleware with the test count > RATE_LIMIT_MAX_REQUESTS: one request
\* too many passes
RateLimitOffByOne(counts, ip, time) ==
    LET userData == counts[ip]
    IN IF IsNull(userData) \/ time > Val(userData).resetTime
       THEN [counts |-> [counts EXCEPT ![ip] =
                           Some([count |-> 1,
                                 resetTime |-> time + RATE_LIMIT_WINDOW])],
             status |-> "next"]
       ELSE IF Val(userData).count > RATE_LIMIT_MAX_REQUESTS
       THEN [counts |-> counts, status |-> "429"]
       ELSE [counts |-> [counts EXCEPT ![ip] =
                           Some([Val(userData) EXCEPT !.count = @ + 1])],
             status |-> "next"]

\* the middleware for one request: the Map it leaves and whether it calls
\* next() or answers 429
RateLimit(counts, ip, time) ==
    LET userData == counts[ip]
    IN IF IsNull(userData) \/ time > Val(userData).resetTime
       THEN [counts |-> [counts EXCEPT ![ip] =
                           Some([count |-> 1,
                                 resetTime |-> time + RATE_LIMIT_WINDOW])],
             status |-> "next"]
       ELSE IF Val(userData).count >= RATE_LIMIT_MAX_REQUESTS
       THEN [counts |-> counts, status |-> "429"]
       ELSE [counts |-> [counts EXCEPT ![ip] =
                           Some([Val(userData) EXCEPT !.count = @ + 1])],
             status |-> "next"]

-----------------------------------------------------------------------------
(* API server: input validation *)

\* limit is <<>> when the parameter is absent or not a number (parseInt gives
\* NaN) and <<n>> when it parses to the integer n
\* validateLimit without Math.min(20000, ...)
validateLimitUncapped(limit) ==
    IF IsNull(limit) \/ Val(limit) < 1 THEN DefaultLimit
    ELSE Max2(1, Val(limit))

\* validateLimit without the test parsed < 1: Math.max clamps to 1
validateLimitClamping(limit) ==
    IF IsNull(limit) THEN DefaultLimit
    ELSE Min2(LimitCap, Max2(1, Val(limit)))

validateLimit(limit) ==
    IF IsNull(limit) \/ Val(limit) < 1 THEN DefaultLimit
    ELSE Min2(LimitCap, Max2(1, Val(limit)))

\* clusters is <<>> when the parameter is absent, else the sequence of the
\* integers its comma-separated tokens convert to
validateClusterIds(clusters) ==
    Take(SeqFilter(clusters, {n \in Range(clusters) : n >= 0}), ClusterCap)

FindCluster(clusterId) ==
    LET hits == {i \in DOMAIN tagClusters : tagClusters[i].id = clusterId}
    IN IF hits = {} THEN NULL
       ELSE Some(tagClusters[CHOOSE i \in hits : \A j \in hits : i <= j])

\* the Set selectedTags both query handlers build
SelectedTags(clusterIds) ==
    UNION { IF IsNull(FindCluster(c)) THEN {} ELSE Val(FindCluster(c)).tags
            : c \in Range(clusterIds) }

-----------------------------------------------------------------------------
(* API server: the SQL of the two relationship queries *)

\* COALESCE(ea.canonical_name, rt.x) over LEFT JOIN entity_aliases ea
\* ON rt.x = ea.original_name
JoinCanonical(aliases, name) ==
    IF name \in DOMAIN aliases THEN aliases[name].canonical_name ELSE name

\* WHERE rt.timestamp IS NULL OR rt.timestamp >= '1970-01-01'
DateFloorOk(row) == IsNull(row.timestamp) \/ Val(row.timestamp) >= DateFloor

\* ORDER BY rt.timestamp: NULL sorts first; rows with equal timestamps come
\* out in rowid order (SQLite, with and without idx_rdf_triples_timestamp)
TimestampRank(rows) ==
    [r \in rows |-> IF IsNull(r.timestamp) THEN 0 ELSE Val(r.timestamp)]

\* the scan with ORDER BY rt.id in place of ORDER BY rt.timestamp
OrderByRowid(rows) == RowsById(rows)

OrderByTimestamp(rows) == StableSort(RowsById(rows), TimestampRank(rows))

JoinedRow(aliases, rt) ==
    [id |-> rt.id, doc_id |-> rt.doc_id, timestamp |-> rt.timestamp,
     actor |-> JoinCanonical(aliases, rt.actor), action |-> rt.action,
     target |-> JoinCanonical(aliases, rt.target), location |-> rt.location,
     triple_tags |-> rt.triple_tags]

JoinAll(aliases, rows) == [i \in DOMAIN rows |-> JoinedRow(aliases, rows[i])]

\* allRelationships of /api/relationships
AllRelationships(triples, aliases) ==
    JoinAll(aliases,
            Take(OrderByTimestamp({rt \in triples : DateFloorOk(rt)}),
                 MAX_DB_LIMIT))

\* the callback of allRelationships.filter(...)
TagFilter(rel, selectedTags) ==
    IF selectedTags = {} THEN TRUE
    ELSE IF IsNull(rel.triple_tags) THEN FALSE
    ELSE LET parsed == JSONParse(Val(rel.triple_tags))
         IN parsed.ok /\ \E t \in Range(parsed.value) : t \in selectedTags

FilterRelationships(rels, selectedTags) ==
    SeqFilter(rels, {r \in Range(rels) : TagFilter(r, selectedTags)})

-----------------------------------------------------------------------------
(* Adjacency maps.  A Map<string, Set<string>> is a record: has is the key   *)
(* set and get[k] the neighbours of k in insertion order (a Set iterates in   *)
(* insertion order and holds no value twice).                                 *)

EmptyAdjacency == [has |-> {}, get |-> [n \in Names |-> <<>>]]

\* if (!adjacency.has(k)) adjacency.set(k, new Set())
AdjEnsure(adj, k) == [adj EXCEPT !.has = @ \cup {k}]

\* adjacency.get(a).add(b)
AdjAdd(adj, a, b) ==
    IF b \in Range(adj.get[a]) THEN adj
    ELSE [adj EXCEPT !.get[a] = Append(@, b)]

\* the loop body with the second add left out: the edge is entered from the
\* actor's side only
AdjLinkOneWay(adj, a, b) ==
    AdjAdd(AdjEnsure(AdjEnsure(adj, a), b), a, b)

\* one iteration of the loop that enters an edge in both directions
AdjLink(adj, a, b) ==
    AdjAdd(AdjAdd(AdjEnsure(AdjEnsure(adj, a), b), a, b), b, a)

RECURSIVE BuildAdjacency(_, _)
\* the loop over the rows (records with actor and target), started with adj
BuildAdjacency(rels, adj) ==
    IF rels = <<>> THEN adj
    ELSE BuildAdjacency(Tail(rels), AdjLink(adj, Head(rels).actor, Head(rels).target))

-----------------------------------------------------------------------------
(* API server: /api/relationships *)

NoDistances == [n \in Names |-> NULL]

RECURSIVE QueryBFSLoop(_, _, _)
\* while (queue.length > 0) { ... } of the query's BFS; distances doubles as
\* the visited set
QueryBFSLoop(adj, queue, distances) ==
    IF queue = <<>> THEN distances
    ELSE LET current == Head(queue)
             currentDistance == Val(distances[current])
             fresh == SeqFilter(adj.get[current],
                                {n \in Names : IsNull(distances[n])})
         IN QueryBFSLoop(adj, Tail(queue) \o fresh,
                [n \in Names |-> IF n \in Range(fresh)
                                 THEN Some(currentDistance + 1)
                                 ELSE distances[n]])

\* distances: Map name -> hops, computed from the filtered rows of this query
QueryDistances(filtered) ==
    LET adjacency == BuildAdjacency(filtered, EmptyAdjacency)
    IN IF EPSTEIN_NAME \in adjacency.has
       THEN QueryBFSLoop(adjacency, <<EPSTEIN_NAME>>,
                         [NoDistances EXCEPT ![EPSTEIN_NAME] = Some(0)])
       ELSE NoDistances

\* distances.get(name) ?? Infinity
DistanceOrInfinity(distances, name) ==
    IF IsNull(distances[name]) THEN Infinity ELSE Val(distances[name])

\* _distance of a row
RowDistance(distances, rel) ==
    Min2(DistanceOrInfinity(distances, rel.actor),
         DistanceOrInfinity(distances, rel.target))

\* relationshipsWithDistance.sort((a, b) => a._distance - b._distance):
\* Array.prototype.sort is stable, and Infinity - Infinity is NaN, which sort
\* takes as "equal"
SortByDistance(rels, distances) ==
    StableSort(rels, [r \in Range(rels) |-> RowDistance(distances, r)])

\* prunedRelationships: sort, then slice(0, limit)
PrunedRelationships(filtered, limit) ==
    Take(SortByDistance(filtered, QueryDistances(filtered)), limit)

\* tags: triple_tags ? JSON.parse(triple_tags) : []   (throws on a bad payload)
TagsThrow(rel) ==
    ~IsNull(rel.triple_tags) /\ ~JSONParse(Val(rel.triple_tags)).ok

ResultRow(rel) ==
    [id |-> rel.id, doc_id |-> rel.doc_id, timestamp |-> rel.timestamp,
     actor |-> rel.actor, action |-> rel.action, target |-> rel.target,
     location |-> rel.location,
     tags |-> IF IsNull(rel.triple_tags) THEN <<>>
              ELSE JSONParse(Val(rel.triple_tags)).value]

\* res.json(array) / the catch block's res.status(500).json({error})
\* keys: the top-level object keys of the JSON body (none for an array)
JsonArray(rels) ==
    [status |-> 200, keys |-> {},
     relationships |-> [i \in DOMAIN rels |-> ResultRow(rels[i])]]

JsonError(code) == [status |-> code, keys |-> {"error"}, relationships |-> <<>>]

SendRows(rels) ==
    IF \E i \in DOMAIN rels : TagsThrow(rels[i]) THEN JsonError(500)
    ELSE JsonArray(rels)

\* the body of app.get('/api/relationships', ...)
RelationshipsHandler(triples, aliases, limitParam, clustersParam) ==
    LET limit == validateLimit(limitParam)
        selectedTags == SelectedTags(validateClusterIds(clustersParam))
        filtered == FilterRelationships(AllRelationships(triples, aliases),
                                        selectedTags)
    IN SendRows(PrunedRelationships(filtered, limit))

-----------------------------------------------------------------------------
(* API server: /api/actor/:name/relationships *)

\* the name of the one parameter value of the model that is over 200
\* characters long
OverlongName == "<a name of 201 characters>"

\* aliasQuery: three SELECTs joined by UNION
AllNames(aliases, name) ==
    {o \in DOMAIN aliases : aliases[o].canonical_name = name}
    \cup (IF name \in DOMAIN aliases THEN {aliases[name].canonical_name} ELSE {})
    \cup {name}

\* allRelationships of the actor query: no LIMIT
ActorRelationships(triples, aliases, name) ==
    LET allNames == AllNames(aliases, name)
    IN JoinAll(aliases,
               OrderByTimestamp({rt \in triples :
                   /\ rt.actor \in allNames \/ rt.target \in allNames
                   /\ DateFloorOk(rt)}))

\* the body of app.get('/api/actor/:name/relationships', ...)
ActorHandler(triples, aliases, name, clustersParam) ==
    IF name = OverlongName THEN JsonError(400)
    ELSE LET selectedTags == SelectedTags(validateClusterIds(clustersParam))
         IN SendRows(FilterRelationships(
                        ActorRelationships(triples, aliases, name), selectedTags))

-----------------------------------------------------------------------------
(* fix_hop_distances.ts: the in-memory computation *)

\* Step 1: SELECT DISTINCT actor UNION SELECT DISTINCT target, as a Set
\* Step 1 without the second SELECT of the UNION: the actors only
AllEntitiesActorsOnly(triples) ==
    SeqFilter(NamesSorted, {rt.actor : rt \in triples})

AllEntities(triples) ==
    SeqFilter(NamesSorted,
              {rt.actor : rt \in triples} \cup {rt.target : rt \in triples})

\* Step 2, one iteration: the alias row of entity if there is one, else itself
LookupCanonical(aliases, entity) ==
    IF entity \in DOMAIN aliases THEN aliases[entity].canonical_name ELSE entity

\* Step 2: canonicalMap, a Map from every entity of the facts to its
\* canonical name; get is <<>> where the Map has no entry
CanonicalMapOf(triples, aliases) ==
    [n \in Names |->
        IF n \in Range(AllEntities(triples))
        THEN Some(LookupCanonical(aliases, n)) ELSE NULL]

RECURSIVE Dedup(_)
\* new Set(sequence): first occurrences, in order
Dedup(s) ==
    IF s = <<>> THEN <<>>
    ELSE LET rest == Dedup(SubSeq(s, 1, Len(s) - 1))
         IN IF s[Len(s)] \in Range(rest) THEN rest ELSE Append(rest, s[Len(s)])

\* canonicalNames = new Set(canonicalMap.values()), in insertion order
CanonicalNamesOf(triples, cmap) ==
    LET ents == AllEntities(triples)
    IN Dedup([i \in DOMAIN ents |-> Val(cmap[ents[i]])])

\* Step 3 with INSERT OR REPLACE: an existing row is overwritten by the self
\* row, its hop distance gone
InsertOrReplaceSelf(aliases, canonical) ==
    [o \in DOMAIN aliases \cup {canonical} |->
        IF o = canonical
        THEN [canonical_name |-> canonical,
              hop_distance_from_principal |-> NULL,
              created_by |-> "hop_fix"]
        ELSE aliases[o]]

\* Step 3, one statement: INSERT OR IGNORE INTO entity_aliases
\* (canonical_name, original_name, created_by, created_at)
InsertOrIgnoreSelf(aliases, canonical) ==
    IF canonical \in DOMAIN aliases THEN aliases
    ELSE [o \in DOMAIN aliases \cup {canonical} |->
            IF o = canonical
            THEN [canonical_name |-> canonical,
                  hop_distance_from_principal |-> NULL,
                  created_by |-> "hop_fix"]
            ELSE aliases[o]]

\* Step 4: the rows of SELECT DISTINCT actor, target FROM rdf_triples
DistinctPairs(triples) ==
    {[actor |-> rt.actor, target |-> rt.target] : rt \in triples}

\* the orders in which SQLite may hand out a set of rows when the statement
\* has no ORDER BY
RowOrders(rows) ==
    {s \in [1..Cardinality(rows) -> rows] :
        \A i, j \in 1..Cardinality(rows) : i # j => s[i] # s[j]}

\* the loop body with the two lookups left out: the edges join the names as
\* the facts spell them
CanonicalPairsAsWritten(rels, cmap) ==
    [i \in DOMAIN rels |-> [actor |-> rels[i].actor, target |-> rels[i].target]]

\* Step 4: the loop body resolves both names through canonicalMap
CanonicalPairs(rels, cmap) ==
    [i \in DOMAIN rels |->
        [actor |-> Val(cmap[rels[i].actor]), target |-> Val(cmap[rels[i].target])]]

\* Step 5: principalCanonical = canonicalMap.get(PRINCIPAL) || PRINCIPAL
PrincipalCanonical(cmap) ==
    IF IsNull(cmap[PRINCIPAL]) THEN PRINCIPAL ELSE Val(cmap[PRINCIPAL])

\* a Map<string, number> with its insertion order
EmptyHops == [get |-> [n \in Names |-> NULL], order |-> <<>>]

HopSet(hops, name, distance) ==
    [get |-> [hops.get EXCEPT ![name] = Some(distance)],
     order |-> IF IsNull(hops.get[name]) THEN Append(hops.order, name)
               ELSE hops.order]

RECURSIVE HopSetAll(_, _, _)
HopSetAll(hops, names, distance) ==
    IF names = <<>> THEN hops
    ELSE HopSetAll(HopSet(hops, Head(names), distance), Tail(names), distance)

\* Step 5, one iteration of while (queue.length > 0) on the loop's
\* variables; with the queue empty the loop has ended and nothing changes
HopBFSIteration(adj, loop) ==
    IF loop.queue = <<>> THEN loop
    ELSE LET current == Head(loop.queue)
             neighbors == IF current.name \in adj.has
                          THEN adj.get[current.name] ELSE <<>>
             fresh == SeqFilter(neighbors, Range(neighbors) \ loop.visited)
             newDistance == current.distance + 1
         IN [queue |-> Tail(loop.queue) \o
                         [i \in DOMAIN fresh |->
                            [name |-> fresh[i], distance |-> newDistance]],
             visited |-> loop.visited \cup Range(fresh),
             hops |-> HopSetAll(loop.hops, fresh, newDistance)]

\* the BFS loop without queue.push: only the principal's neighbours are
\* visited
HopBFSOneLevel(adj, queue, visited, hops) ==
    IF queue = <<>> THEN hops
    ELSE LET current == Head(queue)
             neighbors == IF current.name \in adj.has
                          THEN adj.get[current.name] ELSE <<>>
             fresh == SeqFilter(neighbors, Range(neighbors) \ visited)
         IN HopSetAll(hops, fresh, current.distance + 1)

RECURSIVE HopBFSLoop(_, _, _, _)
\* Step 5: while (queue.length > 0) { ... }
HopBFSLoop(adj, queue, visited, hops) ==
    IF queue = <<>> THEN hops
    ELSE LET loop == HopBFSIteration(adj, [queue |-> queue, visited |-> visited,
                                           hops |-> hops])
         IN HopBFSLoop(adj, loop.queue, loop.visited, loop.hops)

\* Step 5: the BFS, run only when the graph holds the principal
HopBFS(adj, principalCanonical) ==
    IF principalCanonical \in adj.has
    THEN HopBFSLoop(adj, <<[name |-> principalCanonical, distance |-> 0]>>,
                    {principalCanonical}, HopSet(EmptyHops, principalCanonical, 0))
    ELSE EmptyHops

\* Step 5, else branch: console.log(`Warning: Principal "${PRINCIPAL}" not
\* found in graph`)
NotFoundWarning == "Warning: Principal not found in graph"

PrincipalWarning(rels, cmap) ==
    IF PrincipalCanonical(cmap) \in
          BuildAdjacency(CanonicalPairs(rels, cmap), EmptyAdjacency).has
    THEN <<>>
    ELSE <<NotFoundWarning>>

\* Step 6: every canonical name the BFS did not reach gets the sentinel
FillDisconnected(hops, canonicals) ==
    HopSetAll(hops,
              SeqFilter(canonicals,
                        {n \in Range(canonicals) : IsNull(hops.get[n])}),
              DISCONNECTED_HOP_DISTANCE)

\* Steps 4 to 6 for one order of the DISTINCT rows
HopDistancesFor(rels, cmap, canonicals) ==
    FillDisconnected(
        HopBFS(BuildAdjacency(CanonicalPairs(rels, cmap), EmptyAdjacency),
               PrincipalCanonical(cmap)),
        canonicals)

\* Step 7, one statement: UPDATE entity_aliases SET hop_distance_from_principal
\* = ? WHERE canonical_name = ?
UpdateHop(aliases, canonical, distance) ==
    [o \in DOMAIN aliases |->
        IF aliases[o].canonical_name = canonical
        THEN [aliases[o] EXCEPT !.hop_distance_from_principal = Some(distance)]
        ELSE aliases[o]]

\* the whole script run to its end on a database: the entity_aliases table
\* it leaves (the DISTINCT rows taken in rowid order of their first fact)
Rebuilt(triples, aliases) ==
    LET cmap == CanonicalMapOf(triples, aliases)
        names == CanonicalNamesOf(triples, cmap)
        rows == RowsById(triples)
        rels == Dedup([i \in DOMAIN rows |->
                         [actor |-> rows[i].actor, target |-> rows[i].target]])
        hops == HopDistancesFor(rels, cmap, names)
        Inserted[k \in 0..Len(names)] ==
            IF k = 0 THEN aliases ELSE InsertOrIgnoreSelf(Inserted[k - 1], names[k])
        Updated[k \in 0..Len(hops.order)] ==
            IF k = 0 THEN Inserted[Len(names)]
            ELSE UpdateHop(Updated[k - 1], hops.order[k], Val(hops.get[hops.order[k]]))
    IN Updated[Len(hops.order)]

-----------------------------------------------------------------------------
(* dedupe_triples.ts *)

\* GROUP BY doc_id, timestamp, actor, action, target, location: the names
\* bind to the table's columns (not to the COALESCE aliases of the select
\* list), and GROUP BY puts NULLs in one group
GroupKey(rt) ==
    <<rt.doc_id, rt.timestamp, rt.actor, rt.action, rt.target, rt.location>>

\* duplicatesQuery: the groups HAVING COUNT(*) > 1, each as its set of ids
DuplicateGroups(triples) ==
    {g \in {{x.id : x \in {y \in triples : GroupKey(y) = GroupKey(rt)}} : rt \in triples} :
        Cardinality(g) > 1}

RECURSIVE SortedIds(_)
\* ids.sort((a, b) => a - b)
SortedIds(ids) ==
    IF ids = {} THEN <<>>
    ELSE LET m == CHOOSE x \in ids : \A y \in ids : x <= y
         IN <<m>> \o SortedIds(ids \ {m})

\* ids.slice(2): a group's two lowest ids are kept
ToDeleteKeepingTwo(ids) == Tail(Tail(SortedIds(ids)))

\* ids.slice(0, -1): a group's highest id is the one kept
ToDeleteKeepingLast(ids) == SubSeq(SortedIds(ids), 1, Len(SortedIds(ids)) - 1)

\* ids.slice(1): all of a group but its lowest id
ToDelete(ids) == Tail(SortedIds(ids))

RECURSIVE DeletionList(_)
\* the ids the outer loop of Step 4 deletes, group after group (groups taken
\* by their lowest id)
DeletionList(groups) ==
    IF groups = {} THEN <<>>
    ELSE LET g == CHOOSE x \in groups :
                    \A y \in groups : SortedIds(x)[1] <= SortedIds(y)[1]
         IN ToDelete(g) \o DeletionList(groups \ {g})

\* DELETE FROM rdf_triples WHERE id = ?
DeleteById(triples, id) == {rt \in triples : rt.id # id}

-----------------------------------------------------------------------------
(* The databases the model starts from *)

Row(doc, ts, actor, action, target, loc, tags) ==
    [doc_id |-> doc, timestamp |-> ts, actor |-> actor, action |-> action,
     target |-> target, location |-> loc, triple_tags |-> tags]

WithId(r, i) ==
    [id |-> i, doc_id |-> r.doc_id, timestamp |-> r.timestamp, actor |-> r.actor,
     action |-> r.action, target |-> r.target, location |-> r.location,
     triple_tags |-> r.triple_tags]

\* every table of at most MaxFacts rows drawn from pool, ids given in
\* insertion order (INTEGER PRIMARY KEY)
TablesOf(pool) ==
    UNION {{{WithId(s[i], i) : i \in 1..n} : s \in [1..n -> pool]} : n \in 0..MaxFacts}

\* facts for the queries and the rebuild
FactPool ==
    { Row("d1", Some(1999), "Jeffrey Epstein", "met", "A", NULL, Some("[legal]")),
      Row("d1", NULL, "A", "met", "B", NULL, Some("[travel]")),
      Row("d1", Some(2005), "Jeff E.", "met", "B", NULL, NULL),
      Row("d1", Some(1960), "J. Epstein", "met", "A", NULL, Some("[legal]")),
      Row("d1", NULL, "B", "met", "B", NULL, Some("{bad")) }

\* facts for the dedupe script: they differ in one key column at a time
DedupePool ==
    { Row("d1", NULL, "A", "met", "B", NULL, NULL),
      Row("d1", Some(1999), "A", "met", "B", NULL, NULL),
      Row("d1", NULL, "A", "met", "B", Some("NYC"), NULL),
      Row("d2", NULL, "A", "met", "B", NULL, NULL),
      Row("d1", NULL, "B", "met", "A", NULL, Some("[legal]")) }

AliasRow(canonical) ==
    [canonical_name |-> canonical, hop_distance_from_principal |-> NULL,
     created_by |-> "llm_dedupe"]

\* entity_aliases as the external merge step may leave it: empty; two
\* spellings merged into the principal; a chain; the principal's own
\* spelling merged into another one
AliasTables ==
    { [o \in {} |-> AliasRow(o)],
      [o \in {"Jeff E.", "J. Epstein"} |-> AliasRow("Jeffrey Epstein")],
      [o \in {"A", "B"} |-> IF o = "A" THEN AliasRow("B") ELSE AliasRow("Jeffrey Epstein")],
      [o \in {"Jeffrey Epstein"} |-> AliasRow("J. Epstein")] }

NoRequest ==
    [route |-> "none", limit |-> NULL, clusters |-> <<>>, yearMin |-> NULL,
     name |-> ""]
NoResponse == [request |-> NoRequest, reply |-> JsonError(0)]
NotObserved == [read |-> FALSE, table |-> [o \in {} |-> AliasRow(o)]]

\* request parameters of the model
LimitParams == {NULL, Some(-1), Some(0), Some(1), Some(2)}
ClusterParams == {<<>>, <<0>>, <<1>>, <<7>>}
NameParams == Names \cup {OverlongName}
\* yearMin of docs/API.md, a query parameter the handler does not read
YearMinParams == {NULL, Some(2000)}

\* no call of splitText
NoSplit ==
    [pc |-> "none", text |-> <<>>, docId |-> "", remaining |-> <<>>,
     partNum |-> 1, parts |-> <<>>, partIds |-> <<>>]

\* canonical_entities before it is populated
NoCanonicalEntities == [n \in {} |-> 0]

\* requestCounts = new Map(): no entry for any ip
NoCounts == [ip \in ClientIps |-> NULL]

\* the second process before it is started
OtherIdle ==
    [phase |-> "none", canonicalMap |-> [n \in Names |-> NULL],
     canonicalNames |-> <<>>, hopDistances |-> EmptyHops, pending |-> <<>>]

ScriptIdle ==
    /\ other = OtherIdle
    /\ now = 0
    /\ requestCounts = NoCounts
    /\ requestLog = <<>>
    /\ hopQueue = <<>>
    /\ hopVisited = {}
    /\ canonical_entities = NoCanonicalEntities
    /\ split = NoSplit
    /\ canonicalMap = [n \in Names |-> NULL]
    /\ canonicalNames = <<>>
    /\ hopDistances = EmptyHops
    /\ pending = <<>>
    /\ consoleLog = <<>>
    /\ adjacencyList = EmptyAdjacency

-----------------------------------------------------------------------------
(* The API server serving a database on which the rebuild has run *)

InitQuery ==
    /\ rdf_triples \in TablesOf(FactPool)
    /\ startTriples = rdf_triples
    /\ \E raw \in AliasTables :
          /\ entity_aliases = Rebuilt(rdf_triples, raw)
          /\ startAliases = raw
    /\ phase = "idle"
    /\ response = NoResponse
    /\ observed = NotObserved
    /\ ScriptIdle

GetRelationships(limitParam, clustersParam, yearMinParam) ==
    /\ phase = "idle"
    /\ response' =
         [request |-> [route |-> "relationships", limit |-> limitParam,
                       clusters |-> clustersParam, yearMin |-> yearMinParam,
                       name |-> ""],
          reply |-> RelationshipsHandler(rdf_triples, entity_aliases,
                                         limitParam, clustersParam)]
    /\ phase' = "responded"
    /\ UNCHANGED <<rdf_triples, entity_aliases, canonicalMap, canonicalNames,
                   hopDistances, pending, startAliases, observed,
                   consoleLog, adjacencyList, startTriples,
                   other, now, requestCounts,
                   requestLog, hopQueue, hopVisited,
                   canonical_entities, split>>

GetActorRelationships(name, clustersParam) ==
    /\ phase = "idle"
    /\ response' =
         [request |-> [route |-> "actor", limit |-> NULL,
                       clusters |-> clustersParam, yearMin |-> NULL,
                       name |-> name],
          reply |-> ActorHandler(rdf_triples, entity_aliases, name, clustersParam)]
    /\ phase' = "responded"
    /\ UNCHANGED <<rdf_triples, entity_aliases, canonicalMap, canonicalNames,
                   hopDistances, pending, startAliases, observed,
                   consoleLog, adjacencyList, startTriples,
                   other, now, requestCounts,
                   requestLog, hopQueue, hopVisited,
                   canonical_entities, split>>

\* the response has gone out; the server waits for the next request
Close ==
    /\ phase = "responded"
    /\ phase' = "idle"
    /\ response' = NoResponse
    /\ UNCHANGED <<rdf_triples, entity_aliases, canonicalMap, canonicalNames,
                   hopDistances, pending, startAliases, observed,
                   consoleLog, adjacencyList, startTriples,
                   other, now, requestCounts,
                   requestLog, hopQueue, hopVisited,
                   canonical_entities, split>>

NextQuery ==
    \/ \E l \in LimitParams, c \in ClusterParams, y \in YearMinParams :
          GetRelationships(l, c, y)
    \/ \E n \in NameParams, c \in ClusterParams : GetActorRelationships(n, c)
    \/ Close

SpecQuery == InitQuery /\ [][NextQuery]_vars

-----------------------------------------------------------------------------
(* The bounded query over the values req.query.limit can take *)

\* limit parameters on both sides of 1, of the default and of the cap, up to
\* the largest integer of the model
WideLimitParams ==
    {NULL} \cup {Some(n) : n \in {-20001, -1, 0, 1, 2, 3, 499, 500, 501,
                                  19999, 20000, 20001, 50000, 2147483647}}

NextLimit ==
    \/ \E l \in WideLimitParams : GetRelationships(l, <<>>, NULL)
    \/ Close

SpecLimit == InitQuery /\ [][NextLimit]_vars

-----------------------------------------------------------------------------
(* fix_hop_distances.ts, Steps 5 and 6 statement by statement, on databases *)
(* whose facts form one long chain.  The entities are numbered along the    *)
(* chain; 0 is the canonical name of the principal, and no entity has an    *)
(* alias.                                                                   *)

\* most facts of a chain
MaxChain == 1001

\* short chains, and the two longest
ShortChain == 3
ChainLengths == 1..ShortChain \cup {MaxChain - 2, MaxChain - 1}

\* the facts first - 1 -> first, ..., len - 1 -> len, in rowid order
ChainFacts(first, len) ==
    {WithId(Row("d1", NULL, i - 1, "met", i, NULL, NULL), i) : i \in first..len}

\* Step 4 on ChainFacts(first, len): the facts are taken in rowid order, so
\* every entity gets its predecessor first and then its successor
ChainAdjacency(first, len) ==
    [has |-> (first - 1)..len,
     get |-> [n \in (first - 1)..len |->
                (IF n > first - 1 THEN <<n - 1>> ELSE <<>>) \o
                (IF n < len THEN <<n + 1>> ELSE <<>>)]]

\* Steps 1 to 4 have run on a chain that starts at the principal, or at the
\* entity after it
InitChain ==
    /\ \E len \in ChainLengths : \E first \in {1, 2} :
          /\ first = 2 => len <= ShortChain
          /\ rdf_triples = ChainFacts(first, len)
          /\ entity_aliases =
                [o \in (first - 1)..len |->
                    [canonical_name |-> o,
                     hop_distance_from_principal |-> NULL,
                     created_by |-> "hop_fix"]]
          /\ canonicalMap = [n \in (first - 1)..len |-> Some(n)]
          /\ canonicalNames = [i \in 1..(len - first + 2) |-> first - 2 + i]
          /\ adjacencyList = ChainAdjacency(first, len)
          /\ hopDistances = [get |-> [n \in (first - 1)..len |-> NULL],
                             order |-> <<>>]
    /\ startTriples = rdf_triples
    /\ startAliases = [o \in {} |-> AliasRow(o)]
    /\ phase = "graph"
    /\ response = NoResponse
    /\ observed = NotObserved
    /\ pending = <<>>
    /\ consoleLog = <<>>
    /\ other = OtherIdle
    /\ now = 0
    /\ requestCounts = NoCounts
    /\ requestLog = <<>>
    /\ hopQueue = <<>>
    /\ hopVisited = {}
    /\ canonical_entities = NoCanonicalEntities
    /\ split = NoSplit

\* Step 5 up to the loop: the principal is entered when the graph has it,
\* else the warning is printed
ChainSeed ==
    /\ phase = "graph"
    /\ IF 0 \in adjacencyList.has
       THEN /\ hopVisited' = {0}
            /\ hopDistances' = HopSet(hopDistances, 0, 0)
            /\ hopQueue' = <<[name |-> 0, distance |-> 0]>>
            /\ UNCHANGED consoleLog
       ELSE /\ consoleLog' = Append(consoleLog, NotFoundWarning)
            /\ UNCHANGED <<hopVisited, hopDistances, hopQueue>>
    /\ phase' = "bfs"
    /\ UNCHANGED <<rdf_triples, entity_aliases, response, canonicalMap,
                   canonicalNames, pending, startAliases, observed,
                   adjacencyList, startTriples, other, now, requestCounts,
                   requestLog,
                   canonical_entities, split>>

\* Step 5, one iteration of while (queue.length > 0)
ChainVisit ==
    /\ phase = "bfs"
    /\ hopQueue # <<>>
    /\ LET loop == HopBFSIteration(adjacencyList,
                                   [queue |-> hopQueue, visited |-> hopVisited,
                                    hops |-> hopDistances])
       IN /\ hopQueue' = loop.queue
          /\ hopVisited' = loop.visited
          /\ hopDistances' = loop.hops
    /\ UNCHANGED <<rdf_triples, entity_aliases, phase, response, canonicalMap,
                   canonicalNames, pending, startAliases, observed, consoleLog,
                   adjacencyList, startTriples, other, now, requestCounts,
                   requestLog,
                   canonical_entities, split>>

\* Step 6: the canonical names the BFS has not reached get the sentinel
ChainFill ==
    /\ phase = "bfs"
    /\ hopQueue = <<>>
    /\ hopDistances' = FillDisconnected(hopDistances, canonicalNames)
    /\ phase' = "done"
    /\ UNCHANGED <<rdf_triples, entity_aliases, response, canonicalMap,
                   canonicalNames, pending, startAliases, observed, consoleLog,
                   adjacencyList, startTriples, other, now, requestCounts,
                   requestLog, hopQueue, hopVisited,
                   canonical_entities, split>>

NextChain ==
    \/ ChainSeed
    \/ ChainVisit
    \/ ChainFill

SpecChain == InitChain /\ [][NextChain]_vars

-----------------------------------------------------------------------------
(* splitText called on a text, statement by statement *)

Texts == UNION {[1..n -> Chars] : n \in 0..MaxText}
DocIds == {"doc1"}

\* splitText(text, docId) up to the loop: the early return of a text of at
\* most MAX_CHARS, else the locals of the loop
SplitCall ==
    /\ split.pc = "called"
    /\ split' =
          IF Len(split.text) <= MAX_CHARS
          THEN [split EXCEPT !.parts = <<split.text>>,
                             !.partIds = <<split.docId>>,
                             !.pc = "returned"]
          ELSE [split EXCEPT !.parts = <<>>, !.partIds = <<>>,
                             !.remaining = split.text, !.partNum = 1,
                             !.pc = "loop"]
    /\ UNCHANGED <<rdf_triples, entity_aliases, phase, response, canonicalMap,
                   canonicalNames, hopDistances, pending, startAliases, observed,
                   consoleLog, adjacencyList, startTriples, other, now,
                   requestCounts, requestLog, hopQueue, hopVisited,
                   canonical_entities>>

\* one pass through while (remaining.length > 0)
SplitIterate ==
    /\ split.pc = "loop"
    /\ split' =
          IF Len(split.remaining) = 0
          THEN [split EXCEPT !.pc = "returned"]
          ELSE IF Len(split.remaining) <= MAX_CHARS
          THEN [split EXCEPT !.parts = Append(@, split.remaining),
                             !.partIds = Append(@, PartId(split.docId, split.partNum)),
                             !.pc = "returned"]
          ELSE LET splitPoint == SplitPoint(split.remaining)
               IN [split EXCEPT
                     !.parts = Append(@, Substring(split.remaining, 0, splitPoint)),
                     !.partIds = Append(@, PartId(split.docId, split.partNum)),
                     !.remaining = SubstringFrom(split.remaining, splitPoint),
                     !.partNum = @ + 1]
    /\ UNCHANGED <<rdf_triples, entity_aliases, phase, response, canonicalMap,
                   canonicalNames, hopDistances, pending, startAliases, observed,
                   consoleLog, adjacencyList, startTriples, other, now,
                   requestCounts, requestLog, hopQueue, hopVisited,
                   canonical_entities>>

InitSplit ==
    /\ rdf_triples = {}
    /\ startTriples = {}
    /\ entity_aliases = [o \in {} |-> AliasRow(o)]
    /\ startAliases = entity_aliases
    /\ phase = "idle"
    /\ response = NoResponse
    /\ observed = NotObserved
    /\ other = OtherIdle
    /\ now = 0
    /\ requestCounts = NoCounts
    /\ requestLog = <<>>
    /\ hopQueue = <<>>
    /\ hopVisited = {}
    /\ canonical_entities = NoCanonicalEntities
    /\ canonicalMap = [n \in Names |-> NULL]
    /\ canonicalNames = <<>>
    /\ hopDistances = EmptyHops
    /\ pending = <<>>
    /\ consoleLog = <<>>
    /\ adjacencyList = EmptyAdjacency
    /\ \E text \in Texts : \E docId \in DocIds :
          split = [NoSplit EXCEPT !.pc = "called", !.text = text,
                                  !.docId = docId]

NextSplit ==
    \/ SplitCall
    \/ SplitIterate

\* the call runs on: nothing but its own statements can hold it up
SpecSplit == InitSplit /\ [][NextSplit]_vars /\ WF_vars(NextSplit)

-----------------------------------------------------------------------------
(* The rate limiter under requests of several clients over time *)

\* the clock advances
Tick ==
    /\ now < MaxTime
    /\ now' = now + 1
    /\ UNCHANGED <<rdf_triples, entity_aliases, phase, response, canonicalMap,
                   canonicalNames, hopDistances, pending, startAliases, observed,
                   consoleLog, adjacencyList, startTriples, other,
                   requestCounts, requestLog, hopQueue, hopVisited,
                   canonical_entities, split>>

\* a request of a client reaches the middleware
LimitedRequest(ip) ==
    /\ Len(requestLog) < MaxRequests
    /\ LET done == RateLimit(requestCounts, ip, now)
       IN /\ requestCounts' = done.counts
          /\ requestLog' = Append(requestLog,
                                  [ip |-> ip, time |-> now, status |-> done.status])
    /\ UNCHANGED <<rdf_triples, entity_aliases, phase, response, canonicalMap,
                   canonicalNames, hopDistances, pending, startAliases, observed,
                   consoleLog, adjacencyList, startTriples, other, now, hopQueue, hopVisited,
                   canonical_entities, split>>

InitRateLimit ==
    /\ rdf_triples = {}
    /\ startTriples = {}
    /\ entity_aliases = [o \in {} |-> AliasRow(o)]
    /\ startAliases = entity_aliases
    /\ phase = "idle"
    /\ response = NoResponse
    /\ observed = NotObserved
    /\ ScriptIdle

NextRateLimit ==
    \/ Tick
    \/ \E ip \in ClientIps : LimitedRequest(ip)

SpecRateLimit == InitRateLimit /\ [][NextRateLimit]_vars

-----------------------------------------------------------------------------
(* fix_hop_distances.ts run on a database, statement by statement *)

InitRebuild ==
    /\ rdf_triples \in TablesOf(FactPool)
    /\ startTriples = rdf_triples
    /\ entity_aliases \in AliasTables
    /\ startAliases = entity_aliases
    /\ phase = "start"
    /\ response = NoResponse
    /\ observed = NotObserved
    /\ ScriptIdle

\* Steps 1 and 2
RebuildResolve ==
    /\ phase = "start"
    /\ canonicalMap' = CanonicalMapOf(rdf_triples, entity_aliases)
    /\ canonicalNames' = CanonicalNamesOf(rdf_triples, canonicalMap')
    /\ pending' = canonicalNames'
    /\ phase' = "insert"
    /\ UNCHANGED <<rdf_triples, entity_aliases, response, hopDistances,
                   startAliases, observed,
                   consoleLog, adjacencyList, startTriples,
                   other, now, requestCounts,
                   requestLog, hopQueue, hopVisited,
                   canonical_entities, split>>

\* Step 3, one insertStmt.run
RebuildInsert ==
    /\ phase = "insert"
    /\ pending # <<>>
    /\ entity_aliases' = InsertOrIgnoreSelf(entity_aliases, Head(pending))
    /\ pending' = Tail(pending)
    /\ UNCHANGED <<rdf_triples, phase, response, canonicalMap, canonicalNames,
                   hopDistances, startAliases, observed,
                   consoleLog, adjacencyList, startTriples,
                   other, now, requestCounts,
                   requestLog, hopQueue, hopVisited,
                   canonical_entities, split>>

\* Steps 4 to 6
RebuildDistances ==
    /\ phase = "insert"
    /\ pending = <<>>
    /\ \E rels \in RowOrders(DistinctPairs(rdf_triples)) :
          /\ hopDistances' = HopDistancesFor(rels, canonicalMap, canonicalNames)
          /\ consoleLog' = consoleLog \o PrincipalWarning(rels, canonicalMap)
          /\ adjacencyList' = BuildAdjacency(CanonicalPairs(rels, canonicalMap),
                                             EmptyAdjacency)
    /\ pending' = hopDistances'.order
    /\ phase' = "update"
    /\ UNCHANGED <<rdf_triples, entity_aliases, response, canonicalMap,
                   canonicalNames, startAliases, observed,
                   startTriples,
                   other, now, requestCounts,
                   requestLog, hopQueue, hopVisited,
                   canonical_entities, split>>

\* Step 7, one updateStmt.run
RebuildUpdate ==
    /\ phase = "update"
    /\ pending # <<>>
    /\ entity_aliases' = UpdateHop(entity_aliases, Head(pending),
                                   Val(hopDistances.get[Head(pending)]))
    /\ pending' = Tail(pending)
    /\ UNCHANGED <<rdf_triples, phase, response, canonicalMap, canonicalNames,
                   hopDistances, startAliases, observed,
                   consoleLog, adjacencyList, startTriples,
                   other, now, requestCounts,
                   requestLog, hopQueue, hopVisited,
                   canonical_entities, split>>

\* Step 8 and db.close()
RebuildFinish ==
    /\ phase = "update"
    /\ pending = <<>>
    /\ phase' = "done"
    /\ UNCHANGED <<rdf_triples, entity_aliases, response, canonicalMap,
                   canonicalNames, hopDistances, pending, startAliases, observed,
                   consoleLog, adjacencyList, startTriples,
                   other, now, requestCounts,
                   requestLog, hopQueue, hopVisited,
                   canonical_entities, split>>

NextRebuild ==
    \/ RebuildResolve
    \/ RebuildInsert
    \/ RebuildDistances
    \/ RebuildUpdate
    \/ RebuildFinish

SpecRebuild == InitRebuild /\ [][NextRebuild]_vars

-----------------------------------------------------------------------------
(* The script that materialises canonical_entities, run after the rebuild *)

\* INSERT OR REPLACE INTO canonical_entities SELECT DISTINCT canonical_name,
\* hop_distance_from_principal, datetime('now') FROM entity_aliases WHERE
\* canonical_name = original_name AND hop_distance_from_principal IS NOT
\* NULL: original_name is the key of entity_aliases, so the SELECT has one
\* row for a name; a row of the table with the same key is replaced
PopulateCanonicalEntities(table, aliases) ==
    LET selected == {o \in DOMAIN aliases :
                       /\ aliases[o].canonical_name = o
                       /\ ~IsNull(aliases[o].hop_distance_from_principal)}
    IN [n \in DOMAIN table \cup selected |->
          IF n \in selected THEN Val(aliases[n].hop_distance_from_principal)
          ELSE table[n]]

Materialise ==
    /\ phase = "done"
    /\ canonical_entities' =
          PopulateCanonicalEntities(canonical_entities, entity_aliases)
    /\ phase' = "materialised"
    /\ UNCHANGED <<rdf_triples, entity_aliases, response, canonicalMap,
                   canonicalNames, hopDistances, pending, startAliases, observed,
                   consoleLog, adjacencyList, startTriples, other, now,
                   requestCounts, requestLog, hopQueue, hopVisited, split>>

NextMaterialise ==
    \/ NextRebuild
    \/ Materialise

SpecMaterialise == InitRebuild /\ [][NextMaterialise]_vars

\* another connection (the API server's JOIN on entity_aliases) reads the
\* table while the script runs: every statement of the script commits on
\* its own, so the reader sees the table as it stands between two statements
ReadRegistry ==
    /\ ~observed.read
    /\ observed' = [read |-> TRUE, table |-> entity_aliases]
    /\ UNCHANGED <<rdf_triples, entity_aliases, phase, response, canonicalMap,
                   canonicalNames, hopDistances, pending, startAliases,
                   consoleLog, adjacencyList, startTriples,
                   other, now, requestCounts,
                   requestLog, hopQueue, hopVisited,
                   canonical_entities, split>>

NextRebuildRead == NextRebuild \/ ReadRegistry

\* a second fix_hop_distances.ts process is started: the script takes no
\* lock and looks for no running instance
OtherStart ==
    /\ other.phase = "none"
    /\ other' = [other EXCEPT !.phase = "start"]
    /\ UNCHANGED <<rdf_triples, entity_aliases, phase, response, canonicalMap,
                   canonicalNames, hopDistances, pending, startAliases, observed,
                   consoleLog, adjacencyList, startTriples, now, requestCounts,
                   requestLog, hopQueue, hopVisited,
                   canonical_entities, split>>

\* Steps 1 and 2 of the second process
OtherResolve ==
    /\ other.phase = "start"
    /\ LET cmap == CanonicalMapOf(rdf_triples, entity_aliases)
           names == CanonicalNamesOf(rdf_triples, cmap)
       IN other' = [other EXCEPT !.phase = "insert", !.canonicalMap = cmap,
                                 !.canonicalNames = names, !.pending = names]
    /\ UNCHANGED <<rdf_triples, entity_aliases, phase, response, canonicalMap,
                   canonicalNames, hopDistances, pending, startAliases, observed,
                   consoleLog, adjacencyList, startTriples, now, requestCounts,
                   requestLog, hopQueue, hopVisited,
                   canonical_entities, split>>

\* Step 3 of the second process, one insertStmt.run
OtherInsert ==
    /\ other.phase = "insert"
    /\ other.pending # <<>>
    /\ entity_aliases' = InsertOrIgnoreSelf(entity_aliases, Head(other.pending))
    /\ other' = [other EXCEPT !.pending = Tail(@)]
    /\ UNCHANGED <<rdf_triples, phase, response, canonicalMap, canonicalNames,
                   hopDistances, pending, startAliases, observed, consoleLog,
                   adjacencyList, startTriples, now, requestCounts,
                   requestLog, hopQueue, hopVisited,
                   canonical_entities, split>>

\* Steps 4 to 6 of the second process
OtherDistances ==
    /\ other.phase = "insert"
    /\ other.pending = <<>>
    /\ \E rels \in RowOrders(DistinctPairs(rdf_triples)) :
          LET hops == HopDistancesFor(rels, other.canonicalMap,
                                      other.canonicalNames)
          IN other' = [other EXCEPT !.phase = "update", !.hopDistances = hops,
                                    !.pending = hops.order]
    /\ UNCHANGED <<rdf_triples, entity_aliases, phase, response, canonicalMap,
                   canonicalNames, hopDistances, pending, startAliases, observed,
                   consoleLog, adjacencyList, startTriples, now, requestCounts,
                   requestLog, hopQueue, hopVisited,
                   canonical_entities, split>>

\* Step 7 of the second process, one updateStmt.run
OtherUpdate ==
    /\ other.phase = "update"
    /\ other.pending # <<>>
    /\ entity_aliases' =
          UpdateHop(entity_aliases, Head(other.pending),
                    Val(other.hopDistances.get[Head(other.pending)]))
    /\ other' = [other EXCEPT !.pending = Tail(@)]
    /\ UNCHANGED <<rdf_triples, phase, response, canonicalMap, canonicalNames,
                   hopDistances, pending, startAliases, observed, consoleLog,
                   adjacencyList, startTriples, now, requestCounts,
                   requestLog, hopQueue, hopVisited,
                   canonical_entities, split>>

\* Step 8 and db.close() of the second process
OtherFinish ==
    /\ other.phase = "update"
    /\ other.pending = <<>>
    /\ other' = [other EXCEPT !.phase = "done"]
    /\ UNCHANGED <<rdf_triples, entity_aliases, phase, response, canonicalMap,
                   canonicalNames, hopDistances, pending, startAliases, observed,
                   consoleLog, adjacencyList, startTriples, now, requestCounts,
                   requestLog, hopQueue, hopVisited,
                   canonical_entities, split>>

NextOther ==
    \/ OtherStart
    \/ OtherResolve
    \/ OtherInsert
    \/ OtherDistances
    \/ OtherUpdate
    \/ OtherFinish

NextTwoRebuilds == NextRebuild \/ NextOther

\* the script is run again once its first run has ended
SecondRunStart ==
    /\ phase = "done"
    /\ OtherStart

NextRebuildTwice ==
    \/ NextRebuild
    \/ SecondRunStart
    \/ OtherResolve
    \/ OtherInsert
    \/ OtherDistances
    \/ OtherUpdate
    \/ OtherFinish

SpecRebuildTwice == InitRebuild /\ [][NextRebuildTwice]_vars

SpecTwoRebuilds == InitRebuild /\ [][NextTwoRebuilds]_vars

\* the process ends between two statements (shutdown, or a statement that
\* throws): the script has no transaction and no handler, so what the
\* statements before have written stays in the database
RebuildAbort ==
    /\ phase \in {"start", "insert", "update"}
    /\ phase' = "aborted"
    /\ UNCHANGED <<rdf_triples, entity_aliases, response, canonicalMap,
                   canonicalNames, hopDistances, pending, startAliases, observed,
                   consoleLog, adjacencyList, startTriples,
                   other, now, requestCounts,
                   requestLog, hopQueue, hopVisited,
                   canonical_entities, split>>

NextRebuildAbort == NextRebuild \/ RebuildAbort

SpecRebuildAbort == InitRebuild /\ [][NextRebuildAbort]_vars

SpecRebuildRead == InitRebuild /\ [][NextRebuildRead]_vars

-----------------------------------------------------------------------------
(* dedupe_triples.ts run on a database, statement by statement *)

InitDedupe ==
    /\ rdf_triples \in TablesOf(DedupePool)
    /\ startTriples = rdf_triples
    /\ entity_aliases \in AliasTables
    /\ startAliases = entity_aliases
    /\ phase = "scan"
    /\ response = NoResponse
    /\ observed = NotObserved
    /\ ScriptIdle

\* Steps 1 to 3: the duplicates query; the script exits when it finds none
DedupeScan ==
    /\ phase = "scan"
    /\ LET groups == DuplicateGroups(rdf_triples)
       IN IF groups = {}
          THEN phase' = "done" /\ pending' = <<>>
          ELSE phase' = "delete" /\ pending' = DeletionList(groups)
    /\ UNCHANGED <<rdf_triples, entity_aliases, response, canonicalMap,
                   canonicalNames, hopDistances, startAliases, observed,
                   consoleLog, adjacencyList, startTriples,
                   other, now, requestCounts,
                   requestLog, hopQueue, hopVisited,
                   canonical_entities, split>>

\* Step 4, one deleteStmt.run
DedupeDelete ==
    /\ phase = "delete"
    /\ pending # <<>>
    /\ rdf_triples' = DeleteById(rdf_triples, Head(pending))
    /\ pending' = Tail(pending)
    /\ UNCHANGED <<entity_aliases, phase, response, canonicalMap, canonicalNames,
                   hopDistances, startAliases, observed,
                   consoleLog, adjacencyList, startTriples,
                   other, now, requestCounts,
                   requestLog, hopQueue, hopVisited,
                   canonical_entities, split>>

\* Steps 5 and 6: count, VACUUM, db.close()
DedupeFinish ==
    /\ phase = "delete"
    /\ pending = <<>>
    /\ phase' = "done"
    /\ UNCHANGED <<rdf_triples, entity_aliases, response, canonicalMap,
                   canonicalNames, hopDistances, pending, startAliases, observed,
                   consoleLog, adjacencyList, startTriples,
                   other, now, requestCounts,
                   requestLog, hopQueue, hopVisited,
                   canonical_entities, split>>

NextDedupe ==
    \/ DedupeScan
    \/ DedupeDelete
    \/ DedupeFinish

SpecDedupe == InitDedupe /\ [][NextDedupe]_vars

-----------------------------------------------------------------------------
(* Vocabulary of the properties.  These definitions restate what the       *)
(* specification says in terms of the tables; none of them is taken from   *)
(* the handlers' code.                                                     *)

IsBoundedReply == phase = "responded" /\ response.request.route = "relationships"
IsActorReply == phase = "responded" /\ response.request.route = "actor"

\* single-lookup resolution against the registry
Resolve(name) ==
    IF name \in DOMAIN entity_aliases THEN entity_aliases[name].canonical_name
    ELSE name

\* the tags a request selects, and whether a fact's tags meet them
RequestTags(request) ==
    UNION {tagClusters[i].tags :
             i \in {j \in DOMAIN tagClusters :
                      \E k \in DOMAIN request.clusters :
                         request.clusters[k] = tagClusters[j].id}}

ClustersGiven(request) == \E k \in DOMAIN request.clusters : request.clusters[k] >= 0

FactTags(rt) ==
    IF IsNull(rt.triple_tags) THEN {}
    ELSE CASE Val(rt.triple_tags) = "[legal]" -> {"legal"}
           [] Val(rt.triple_tags) = "[travel]" -> {"travel"}
           [] OTHER -> {}

\* a fact passes the filters of a request: the fixed date floor of both
\* queries and, when clusters are given, the tag-cluster filter
PassesFilters(rt, request) ==
    /\ IsNull(rt.timestamp) \/ Val(rt.timestamp) >= DateFloor
    /\ ClustersGiven(request) => FactTags(rt) \cap RequestTags(request) # {}

\* the request does not name unrecognised clusters only
SelectsSomeTag(request) == ClustersGiven(request) => RequestTags(request) # {}

\* the effective limit of a request
EffectiveLimit(request) ==
    IF IsNull(request.limit) \/ Val(request.limit) < 1 THEN DefaultLimit
    ELSE IF Val(request.limit) > LimitCap THEN LimitCap ELSE Val(request.limit)

ReturnedIds(reply) == {reply.relationships[i].id : i \in DOMAIN reply.relationships}

\* the rows the bounded query has in hand after its filter stage, and the
\* relevance key (_distance) it gives each of them
HandlerFiltered(request) ==
    FilterRelationships(AllRelationships(rdf_triples, entity_aliases),
                        SelectedTags(validateClusterIds(request.clusters)))

HandlerKey(request) ==
    LET filtered == HandlerFiltered(request)
        distances == QueryDistances(filtered)
    IN [id \in {filtered[i].id : i \in DOMAIN filtered} |->
          RowDistance(distances,
                      filtered[CHOOSE i \in DOMAIN filtered : filtered[i].id = id])]

\* the undirected graph of the facts over canonical names, as a set of
\* edges, and shortest-path lengths in it
GraphNodes(triples) ==
    {Resolve(rt.actor) : rt \in triples} \cup {Resolve(rt.target) : rt \in triples}

GraphEdges(triples) == {{Resolve(rt.actor), Resolve(rt.target)} : rt \in triples}

RECURSIVE Within(_, _, _)
\* the nodes at most k edges away from src
Within(edges, src, k) ==
    IF k = 0 THEN {src}
    ELSE LET w == Within(edges, src, k - 1)
         IN w \cup {n \in Names : \E m \in w : {m, n} \in edges}

Reachable(edges, src, n) == n \in Within(edges, src, Cardinality(Names))

PathLength(edges, src, n) ==
    CHOOSE k \in 0..Cardinality(Names) :
        /\ n \in Within(edges, src, k)
        /\ \A j \in 0..(k - 1) : n \notin Within(edges, src, j)

-----------------------------------------------------------------------------
(* C1 *)

\* the facts of the table that pass the filters of a request, joined to
\* their canonical names, in scan order, and their relevance keys
PassingRows(request) ==
    JoinAll(entity_aliases,
            OrderByTimestamp({rt \in rdf_triples : PassesFilters(rt, request)}))

PassingKey(request) ==
    LET rows == PassingRows(request)
        distances == QueryDistances(rows)
    IN [id \in {rows[i].id : i \in DOMAIN rows} |->
          RowDistance(distances, rows[CHOOSE i \in DOMAIN rows : rows[i].id = id])]

\* C1: a bounded query with effective limit K returns the first min(K, n) of
\* the n facts that pass the filters, in ascending relevance-key order: the
\* list has min(K, n) facts, its keys never decrease, and no passing fact
\* that is left out has a strictly smaller key than a returned one.
\* (Limits are taken below the scan ceiling, as 20000 is below 50000.)
C1_TopKByRelevance ==
    (IsBoundedReply /\ response.reply.status = 200
       /\ SelectsSomeTag(response.request)
       /\ EffectiveLimit(response.request) <= MAX_DB_LIMIT) =>
    LET request == response.request
        out == response.reply.relationships
        key == PassingKey(request)
        passing == DOMAIN key
        n == Cardinality(passing)
    IN /\ Len(out) = Min2(EffectiveLimit(request), n)
       /\ ReturnedIds(response.reply) \subseteq passing
       /\ \A i, j \in DOMAIN out : i < j => key[out[i].id] <= key[out[j].id]
       /\ \A id \in passing \ ReturnedIds(response.reply) :
             \A i \in DOMAIN out : key[id] >= key[out[i].id]

-----------------------------------------------------------------------------
(* C2 *)

\* the distance the Distance Index owes a canonical entity
OwedDistance(entity) ==
    LET principal == Resolve(PRINCIPAL)
        edges == GraphEdges(rdf_triples)
    IN IF principal \in GraphNodes(rdf_triples) /\ Reachable(edges, principal, entity)
       THEN PathLength(edges, principal, entity)
       ELSE DISCONNECTED_HOP_DISTANCE

\* C2: once the Distance Index is computed every canonical entity of the
\* graph has a distance: 0 for the principal's canonical name, the length of
\* a shortest path for every entity reachable from it, 1000 for the others.
C2_DistancesAreShortestPaths ==
    phase \in {"update", "done"} =>
    \A e \in GraphNodes(rdf_triples) :
        /\ ~IsNull(hopDistances.get[e])
        /\ Val(hopDistances.get[e]) = OwedDistance(e)

\* C2 with the principal under its own name: when no alias row renames the
\* principal, the computed distances are the shortest-path distances
C2_WhenPrincipalIsCanonical ==
    Resolve(PRINCIPAL) = PRINCIPAL => C2_DistancesAreShortestPaths

-----------------------------------------------------------------------------
(* C3 *)

\* C3: on every alias table the rebuild has run to its end on, and for every
\* name n, resolving twice gives what resolving once gives, for the
\* rebuild's lookup and for the query's JOIN alike.
C3_ResolveIdempotent ==
    phase = "done" =>
    \A n \in Names :
        /\ LookupCanonical(entity_aliases, LookupCanonical(entity_aliases, n))
             = LookupCanonical(entity_aliases, n)
        /\ JoinCanonical(entity_aliases, JoinCanonical(entity_aliases, n))
             = JoinCanonical(entity_aliases, n)

-----------------------------------------------------------------------------
(* C4 *)

\* every original name whose canonical name is resolve(n), and resolve(n)
AliasEquivalenceSet(n) ==
    {o \in DOMAIN entity_aliases : entity_aliases[o].canonical_name = Resolve(n)}
    \cup {Resolve(n)}

\* C4: the actor-scoped query for n returns exactly the facts that pass the
\* filters and whose raw actor or raw target is in n's alias-equivalence
\* set, with no limit applied.
C4_ActorQueryComplete ==
    (IsActorReply /\ response.reply.status = 200
       /\ SelectsSomeTag(response.request)) =>
    ReturnedIds(response.reply) =
        {rt.id : rt \in {x \in rdf_triples :
            /\ PassesFilters(x, response.request)
            /\ \/ x.actor \in AliasEquivalenceSet(response.request.name)
               \/ x.target \in AliasEquivalenceSet(response.request.name)}}

-----------------------------------------------------------------------------
(* C5 *)

\* two facts carry the same (doc_id, timestamp, actor, action, target,
\* location); an absent timestamp or location equals another absent one
SameFact(x, y) ==
    /\ x.doc_id = y.doc_id
    /\ x.timestamp = y.timestamp
    /\ x.actor = y.actor
    /\ x.action = y.action
    /\ x.target = y.target
    /\ x.location = y.location

\* C5: after dedupe has run, no two surviving facts have the same
\* (doc_id, timestamp, actor, action, target, location).
C5_NoDuplicatesAfterDedupe ==
    phase = "done" =>
    \A x, y \in rdf_triples : x.id # y.id => ~SameFact(x, y)

\* dedupe has run to its end on a table with duplicates and has left
\* several facts, one of them behind a deleted one
C5_Witness ==
    /\ phase = "done"
    /\ Cardinality(rdf_triples) >= 2
    /\ \E x \in rdf_triples : x.id > Cardinality(rdf_triples)

-----------------------------------------------------------------------------
(* C6 *)

\* the snapshot's Distance Index as the rebuild has stored it: the hop
\* distance of the registry rows whose canonical_name is the entity
SnapshotDistance(entity) ==
    LET rows == {o \in DOMAIN entity_aliases :
                   entity_aliases[o].canonical_name = entity}
    IN entity_aliases[CHOOSE o \in rows : TRUE].hop_distance_from_principal

\* the handler's Infinity read as the disconnected sentinel
AsStored(key) == IF key = Infinity THEN DISCONNECTED_HOP_DISTANCE ELSE key

\* C6: the relevance key by which the bounded query orders a fact is the
\* smaller of the snapshot distances of its canonical actor and target,
\* whatever filters the query carries.
C6_KeyFromSnapshotIndex ==
    IsBoundedReply =>
    LET filtered == HandlerFiltered(response.request)
        key == HandlerKey(response.request)
    IN \A i \in DOMAIN filtered :
          AsStored(key[filtered[i].id]) =
             Min2(Val(SnapshotDistance(filtered[i].actor)),
                  Val(SnapshotDistance(filtered[i].target)))

-----------------------------------------------------------------------------
(* C7 *)

\* C7: a reader of the registry and its distances sees the table either as
\* it was before the rebuild or as the finished rebuild leaves it.
C7_ReaderSeesWholeSnapshot ==
    observed.read =>
       \/ observed.table = startAliases
       \/ observed.table = Rebuilt(rdf_triples, startAliases)

-----------------------------------------------------------------------------
(* C8 *)

\* C8: every bounded-query response carries the count before filtering and
\* the count before truncation (under the names of the specification or of
\* docs/API.md), and count before filter >= count before truncation >=
\* number of facts returned.
C8_ResponseCarriesCounts ==
    (IsBoundedReply /\ response.reply.status = 200) =>
    /\ \/ {"countBeforeFilter", "countBeforeTruncation"} \subseteq response.reply.keys
       \/ {"totalBeforeFilter", "totalBeforeLimit"} \subseteq response.reply.keys
    /\ Cardinality(rdf_triples) >= Len(HandlerFiltered(response.request))
    /\ Len(HandlerFiltered(response.request)) >= Len(response.reply.relationships)

-----------------------------------------------------------------------------
(* C10 *)

\* C10 as stated: among facts with equal relevance key the bounded query
\* orders by ascending id, and of an equal-key group cut by the limit the
\* facts with the lowest ids are the ones returned.
C10_TiesByAscendingId ==
    (IsBoundedReply /\ response.reply.status = 200) =>
    LET out == response.reply.relationships
        key == HandlerKey(response.request)
    IN /\ \A i, j \in DOMAIN out :
             (i < j /\ key[out[i].id] = key[out[j].id]) => out[i].id < out[j].id
       /\ \A id \in DOMAIN key \ ReturnedIds(response.reply) :
             \A i \in DOMAIN out : key[id] = key[out[i].id] => out[i].id < id

\* the place of a fact's timestamp in ORDER BY timestamp: undated first
DateOrder(ts) == IF IsNull(ts) THEN 0 ELSE Val(ts)

TimestampOfId(id) == (CHOOSE rt \in rdf_triples : rt.id = id).timestamp

\* C10 amended: among facts with equal relevance key the bounded query
\* orders by ascending timestamp, undated facts first, and of an equal-key
\* group cut by the limit no returned fact is dated later than a fact of the
\* group that is left out.
C10_TiesByAscendingTimestamp ==
    (IsBoundedReply /\ response.reply.status = 200) =>
    LET out == response.reply.relationships
        key == HandlerKey(response.request)
    IN /\ \A i, j \in DOMAIN out :
             (i < j /\ key[out[i].id] = key[out[j].id])
                => DateOrder(out[i].timestamp) <= DateOrder(out[j].timestamp)
       /\ \A id \in DOMAIN key \ ReturnedIds(response.reply) :
             \A i \in DOMAIN out :
                key[id] = key[out[i].id]
                   => DateOrder(out[i].timestamp) <= DateOrder(TimestampOfId(id))

\* the limit has cut an equal-key group and kept the fact with the higher
\* id, which is the earlier one
C10_Witness ==
    /\ IsBoundedReply
    /\ response.reply.status = 200
    /\ LET out == response.reply.relationships
           key == HandlerKey(response.request)
       IN \E id \in DOMAIN key \ ReturnedIds(response.reply) :
             \E i \in DOMAIN out :
                /\ key[id] = key[out[i].id]
                /\ id < out[i].id
                /\ DateOrder(out[i].timestamp) < DateOrder(TimestampOfId(id))

-----------------------------------------------------------------------------
(* C11 *)

FactOfId(id) == CHOOSE rt \in rdf_triples : rt.id = id

\* the facts a reply may draw from: all that pass the date floor, for the
\* actor query those that name one of the names the query looks for
InScope(request) ==
    {rt \in rdf_triples :
        /\ IsNull(rt.timestamp) \/ Val(rt.timestamp) >= DateFloor
        /\ request.route = "actor" =>
              \/ rt.actor \in AllNames(entity_aliases, request.name)
              \/ rt.target \in AllNames(entity_aliases, request.name)}

\* a fact's tags meet the union of the tags of the supplied clusters
MeetsClusters(rt, request) == FactTags(rt) \cap RequestTags(request) # {}

\* the reply is not cut short: the table is within the scan ceiling and the
\* effective limit is not below the number of facts
Uncut(request) ==
    request.route = "relationships" =>
       /\ Cardinality(rdf_triples) <= MAX_DB_LIMIT
       /\ Cardinality(rdf_triples) <= EffectiveLimit(request)

\* C11: when a query supplies cluster ids, a fact is returned only if its
\* tags share a tag with the union of the tags of the supplied clusters
\* (unrecognised ids contribute none, so a query naming only unrecognised
\* ids returns no fact), and every such fact in scope is returned when the
\* reply is not cut short.
C11_TagClusterFilter ==
    (phase = "responded" /\ response.reply.status = 200
        /\ response.request.clusters # <<>>) =>
    /\ \A id \in ReturnedIds(response.reply) :
          MeetsClusters(FactOfId(id), response.request)
    /\ Uncut(response.request) =>
          \A rt \in InScope(response.request) :
             MeetsClusters(rt, response.request)
                => rt.id \in ReturnedIds(response.reply)

\* C11 for queries that name at least one recognised cluster
C11_WhenSomeClusterRecognised ==
    SelectsSomeTag(response.request) => C11_TagClusterFilter

-----------------------------------------------------------------------------
(* C12 *)

\* a fact satisfies the filters a request supplies; of the filters of
\* docs/API.md a request of the model can supply clusters and yearMin
\* (undated facts are included by default)
SatisfiesSupplied(rt, request) ==
    /\ request.clusters # <<>> => MeetsClusters(rt, request)
    /\ ~IsNull(request.yearMin) =>
          IsNull(rt.timestamp) \/ Val(rt.timestamp) >= Val(request.yearMin)

\* C12: in the bounded query a fact is returned only if it satisfies every
\* filter the query supplies, and a query that supplies no filter gets every
\* fact (when the reply is not cut short).
C12_SuppliedFiltersAreAnded ==
    (IsBoundedReply /\ response.reply.status = 200) =>
    /\ \A id \in ReturnedIds(response.reply) :
          SatisfiesSupplied(FactOfId(id), response.request)
    /\ (/\ response.request.clusters = <<>>
        /\ IsNull(response.request.yearMin)
        /\ Uncut(response.request)) =>
          ReturnedIds(response.reply) = {rt.id : rt \in rdf_triples}

\* the first half of C12 for queries that supply no cluster ids: the year
\* filter alone
C12_YearMinAlone ==
    (IsBoundedReply /\ response.reply.status = 200
        /\ response.request.clusters = <<>>) =>
    \A id \in ReturnedIds(response.reply) :
       SatisfiesSupplied(FactOfId(id), response.request)

-----------------------------------------------------------------------------
(* C13 *)

\* the tag payload of a fact is present and is not a JSON array of tags
Unparseable(rt) ==
    /\ ~IsNull(rt.triple_tags)
    /\ Val(rt.triple_tags) \notin {"[legal]", "[travel]", "[]"}

\* C13: a fact whose tag payload cannot be parsed is left out and the query
\* succeeds with the other facts, with and without a cluster filter, in the
\* bounded and in the actor-scoped query.
C13_UnparseableTagsAreLocal ==
    (phase = "responded" /\ response.request.name # OverlongName) =>
    /\ response.reply.status = 200
    /\ \A id \in ReturnedIds(response.reply) : ~Unparseable(FactOfId(id))

\* C13 for queries whose cluster list selects some tag: the filter stage
\* catches the parse error
C13_UnderAClusterFilter ==
    (ClustersGiven(response.request) /\ RequestTags(response.request) # {})
       => C13_UnparseableTagsAreLocal

-----------------------------------------------------------------------------
(* C14 *)

\* the request is a bounded query with a limit of zero or below
NonPositiveLimit ==
    /\ IsBoundedReply
    /\ ~IsNull(response.request.limit)
    /\ Val(response.request.limit) <= 0

-----------------------------------------------------------------------------
(* C15 *)

\* C15: whatever the limit parameter is (absent, not a number, any integer)
\* the effective limit lies in 1..20000 and is 500 when the parameter is
\* absent, and the bounded query returns no more facts than that.
C15_EffectiveLimitInRange ==
    IsBoundedReply =>
    LET limit == validateLimit(response.request.limit)
    IN /\ limit \in 1..20000
       /\ IsNull(response.request.limit) => limit = 500
       /\ Len(response.reply.relationships) <= limit

\* a query asking for more than the cap has been answered with facts
C15_Witness ==
    /\ IsBoundedReply
    /\ response.request.limit = Some(20001)
    /\ response.reply.status = 200
    /\ response.reply.relationships # <<>>

-----------------------------------------------------------------------------
(* C16 *)

\* the distance the rebuild has computed for a canonical name
Computed(entity) == Val(hopDistances.get[entity])

\* C16: once the distances are computed, any two entities that a fact makes
\* direct neighbours have distances that differ by at most 1, the sentinel
\* included.
C16_NeighboursDifferByOne ==
    phase \in {"update", "done"} =>
    \A rt \in rdf_triples :
       LET a == Resolve(rt.actor)
           b == Resolve(rt.target)
       IN /\ ~IsNull(hopDistances.get[a])
          /\ ~IsNull(hopDistances.get[b])
          /\ Computed(a) - Computed(b) \in {-1, 0, 1}

\* the rebuild has ended on a graph in which a fact joins an entity one
\* edge from the principal to an entity two edges from it
C16_Witness ==
    /\ phase = "done"
    /\ \E rt \in rdf_triples :
          {Computed(Resolve(rt.actor)), Computed(Resolve(rt.target))} = {1, 2}

-----------------------------------------------------------------------------
(* C17 *)

\* the principal's canonical name is a node of the fact graph
PrincipalInGraph == Resolve(PRINCIPAL) \in GraphNodes(rdf_triples)

\* the rebuild has said that it did not find the principal
NotFoundIndicated == NotFoundWarning \in Range(consoleLog)

\* C17: a rebuild on a graph without the principal's canonical name ends
\* with the principal-not-found indication, which no rebuild on a graph
\* with the principal gives, and gives no entity the distance 0.
C17_PrincipalNotFoundIsDistinguishable ==
    phase \in {"update", "done"} =>
    /\ NotFoundIndicated <=> ~PrincipalInGraph
    /\ ~PrincipalInGraph =>
          \A n \in Names : hopDistances.get[n] # Some(0)

\* C17 on registries that do not rename the principal
C17_WhenPrincipalIsCanonical ==
    Resolve(PRINCIPAL) = PRINCIPAL => C17_PrincipalNotFoundIsDistinguishable

-----------------------------------------------------------------------------
(* C18 *)

\* the neighbours the rebuild's adjacency map lists for an entity
Neighbours(n) == Range(adjacencyList.get[n])

\* every fact that names the entity is a self-loop
OnlySelfLoops(n) ==
    \A rt \in rdf_triples :
       n \in {Resolve(rt.actor), Resolve(rt.target)}
          => Resolve(rt.actor) = Resolve(rt.target)

\* C18 as stated: after graph construction every canonical name that a fact
\* resolves to has an adjacency entry, an entity all of whose facts are
\* self-loops has no neighbours, and no entity is its own neighbour.
C18_NoSelfNeighbours ==
    phase \in {"update", "done"} =>
    /\ \A n \in GraphNodes(rdf_triples) : n \in adjacencyList.has
    /\ \A n \in GraphNodes(rdf_triples) : OnlySelfLoops(n) => Neighbours(n) = {}
    /\ \A n \in GraphNodes(rdf_triples) : n \notin Neighbours(n)

\* C18 amended: after graph construction the adjacency map has an entry for
\* exactly the canonical names that a fact resolves to, and the neighbours
\* of an entity are exactly the names that a fact joins it to; a self-loop
\* makes the entity its own neighbour, so an entity all of whose facts are
\* self-loops has itself as its only neighbour.
C18_NeighboursAreFactPartners ==
    phase \in {"update", "done"} =>
    /\ adjacencyList.has = GraphNodes(rdf_triples)
    /\ \A n \in GraphNodes(rdf_triples) :
          Neighbours(n) = {m \in Names : {n, m} \in GraphEdges(rdf_triples)}
    /\ \A n \in GraphNodes(rdf_triples) : OnlySelfLoops(n) => Neighbours(n) = {n}

\* the graph is built from a self-loop fact and from a fact that joins two
\* different entities
C18_Witness ==
    /\ phase = "done"
    /\ \E n \in GraphNodes(rdf_triples) : OnlySelfLoops(n)
    /\ \E rt \in rdf_triples : Resolve(rt.actor) # Resolve(rt.target)

-----------------------------------------------------------------------------
(* C19 *)

\* the backfill (Step 3) has run to its end
BackfillDone == phase \in {"update", "done"} \/ (phase = "insert" /\ pending = <<>>)

\* C19: after the backfill every canonical entity, every name that a fact's
\* actor or target resolves to, has its registry row (one row, original_name
\* being the primary key), and the row maps the name to itself.
C19_CanonicalEntitiesHaveSelfRows ==
    BackfillDone =>
    \A n \in GraphNodes(rdf_triples) :
       /\ n \in DOMAIN entity_aliases
       /\ entity_aliases[n].canonical_name = n

\* a registry has a chain: a canonical name that is itself an original name
\* mapped to another name
HasChain(table) ==
    \E o \in DOMAIN table :
       LET c == table[o].canonical_name
       IN c \in DOMAIN table /\ table[c].canonical_name # c

\* C19 on registries without a chain
C19_WhenNoChain == ~HasChain(startAliases) => C19_CanonicalEntitiesHaveSelfRows

-----------------------------------------------------------------------------
(* C20 *)

\* one lookup in the registry the rebuild started on
OneHop(name) ==
    IF name \in DOMAIN startAliases THEN startAliases[name].canonical_name
    ELSE name

\* C20: on a registry with a chain the rebuild stops with a data-integrity
\* error: it does not go on to compute distances and does not complete; and
\* it never resolves a name by more than one lookup.
C20_ChainsAreReported ==
    /\ HasChain(startAliases) => phase \notin {"update", "done"}
    /\ \A n \in Names :
          ~IsNull(canonicalMap[n]) => Val(canonicalMap[n]) = OneHop(n)

\* the second half of C20 alone: resolution is one lookup, also on a chain
C20_OneHopOnly ==
    \A n \in Names : ~IsNull(canonicalMap[n]) => Val(canonicalMap[n]) = OneHop(n)

\* C20 for a chain that the facts use: the rebuild does not complete with
\* distances computed over a name that the registry maps further
C20_ChainInUse ==
    (\E rt \in rdf_triples : \E n \in {rt.actor, rt.target} :
        OneHop(OneHop(n)) # OneHop(n)) => phase # "done"

-----------------------------------------------------------------------------
(* C21 *)

\* the rebuild has resolved the entities (Step 2 is over)
Resolved == phase \in {"insert", "update", "done"}

\* C21: resolution is total.  On a fact table that stays as it is while the
\* rebuild runs, the rebuild has a canonical name for the actor and the
\* target of every fact, the name itself when the registry had no row for
\* it and the row's canonical_name otherwise, and every key of the
\* adjacency map is such a name.
C21_ResolveIsTotal ==
    /\ Resolved =>
          \A rt \in rdf_triples : \A n \in {rt.actor, rt.target} :
             /\ ~IsNull(canonicalMap[n])
             /\ n \notin DOMAIN startAliases => canonicalMap[n] = Some(n)
             /\ n \in DOMAIN startAliases =>
                   canonicalMap[n] = Some(startAliases[n].canonical_name)
    /\ phase \in {"update", "done"} =>
          adjacencyList.has =
             {Val(canonicalMap[n]) :
                n \in {rt.actor : rt \in rdf_triples}
                         \cup {rt.target : rt \in rdf_triples}}

\* the rebuild has ended on facts that name an entity without a registry
\* row and an entity that the registry maps to another name
C21_Witness ==
    /\ phase = "done"
    /\ \E rt \in rdf_triples : \E n \in {rt.actor, rt.target} :
          n \notin DOMAIN startAliases
    /\ \E rt \in rdf_triples : \E n \in {rt.actor, rt.target} :
          n \in DOMAIN startAliases /\ startAliases[n].canonical_name # n

-----------------------------------------------------------------------------
(* C22 *)

\* the fact has the lowest id of the facts of its key before dedupe
LowestOfItsKey(x) == \A y \in startTriples : SameFact(x, y) => x.id <= y.id

\* C22: after dedupe exactly one fact survives of every key that had a fact
\* before, it is the one with the lowest id, and the facts of a key that was
\* not duplicated are as they were.
C22_LowestIdSurvives ==
    phase = "done" =>
       rdf_triples = {x \in startTriples : LowestOfItsKey(x)}

\* dedupe has ended on a table that had a duplicated key, whose facts were
\* not the last of the table, and a key with a single fact
C22_Witness ==
    /\ phase = "done"
    /\ \E x, y \in startTriples : x.id < y.id /\ SameFact(x, y)
    /\ \E x \in rdf_triples :
          /\ \A y \in startTriples : SameFact(x, y) => x.id = y.id
          /\ \E y \in startTriples \ rdf_triples : y.id < x.id

-----------------------------------------------------------------------------
(* C23 *)

\* C23: when a rebuild is aborted at any step, the registry rows and the
\* hop distances that queries read are those of the previous snapshot.
C23_AbortKeepsPreviousSnapshot ==
    phase = "aborted" => entity_aliases = startAliases

-----------------------------------------------------------------------------
(* C24 *)

\* a process is between its first and its last step
InProgress(p) == p \in {"insert", "update"}

\* C24: at most one rebuild is in progress at any time; a rebuild asked for
\* while another runs does not execute its steps between those of the
\* running one.
C24_SingleRebuild == ~(InProgress(phase) /\ InProgress(other.phase))

\* C24 for the writes of Step 3: the two processes are never both part of
\* the way through their INSERT loops
C24_InsertLoopsDoNotInterleave ==
    ~(/\ phase = "insert" /\ pending # <<>> /\ pending # canonicalNames
      /\ other.phase = "insert" /\ other.pending # <<>>
      /\ other.pending # other.canonicalNames)

-----------------------------------------------------------------------------
(* C25 *)

\* C25: the rebuild is idempotent: a second run right after the first, on
\* the same facts, inserts no registry row and changes no registry row or
\* distance, and computes for every entity the distance the first run
\* computed.
C25_RebuildIsIdempotent ==
    /\ [][phase = "done" => entity_aliases' = entity_aliases]_vars
    /\ [](other.phase \in {"update", "done"} =>
             other.hopDistances.get = hopDistances.get)

\* the second run has ended after a first run that inserted rows and wrote
\* distances, one of them between 0 and the sentinel
C25_Witness ==
    /\ phase = "done"
    /\ other.phase = "done"
    /\ DOMAIN entity_aliases # DOMAIN startAliases
    /\ \E o \in DOMAIN entity_aliases :
          entity_aliases[o].hop_distance_from_principal = Some(1)

-----------------------------------------------------------------------------
(* C26 *)

\* the logged requests of a client
RequestsOf(ip) == {i \in DOMAIN requestLog : requestLog[i].ip = ip}

\* the requests of a client passed to the route handlers at a time in from..to
AdmittedIn(ip, from, to) ==
    {i \in RequestsOf(ip) : /\ requestLog[i].status = "next"
                            /\ requestLog[i].time >= from
                            /\ requestLog[i].time <= to}

\* C26: for each client at most RATE_LIMIT_MAX_REQUESTS requests are admitted
\* in any period of RATE_LIMIT_WINDOW ticks, wherever the period starts.
C26_AtMostMaxInAnyPeriod ==
    \A ip \in ClientIps : \A t \in 0..MaxTime :
       Cardinality(AdmittedIn(ip, t, t + RATE_LIMIT_WINDOW - 1))
          <= RATE_LIMIT_MAX_REQUESTS

\* the client's request before request i, 0 when i is its first
PreviousOf(i) ==
    LET before == {j \in RequestsOf(requestLog[i].ip) : j < i}
    IN IF before = {} THEN 0
       ELSE CHOOSE j \in before : \A k \in before : k <= j

\* the time at which the window of request i started: the time of the
\* client's first request that came after the window before had expired
RECURSIVE WindowStart(_)
WindowStart(i) ==
    IF PreviousOf(i) = 0 THEN requestLog[i].time
    ELSE LET start == WindowStart(PreviousOf(i))
         IN IF requestLog[i].time > start + RATE_LIMIT_WINDOW
            THEN requestLog[i].time
            ELSE start

\* the requests of the client of request i admitted before it in its window
AdmittedBefore(i) ==
    {j \in RequestsOf(requestLog[i].ip) :
        /\ j < i
        /\ requestLog[j].status = "next"
        /\ WindowStart(j) = WindowStart(i)}

\* C26, per window: a window of a client starts with its first request after
\* the window before has expired and lasts RATE_LIMIT_WINDOW ticks; at most
\* RATE_LIMIT_MAX_REQUESTS requests of the client are admitted in one window,
\* and a request is answered 429, and not passed on, exactly when the window
\* has admitted that many before it.
C26_AtMostMaxPerWindow ==
    \A i \in DOMAIN requestLog :
       /\ requestLog[i].status \in {"next", "429"}
       /\ requestLog[i].status = "429" <=>
             Cardinality(AdmittedBefore(i)) >= RATE_LIMIT_MAX_REQUESTS
       /\ Cardinality(AdmittedBefore(i) \cup
             {j \in {i} : requestLog[j].status = "next"})
             <= RATE_LIMIT_MAX_REQUESTS

\* a client has filled a window, was answered 429 in it, and was admitted
\* again in the window after it, while another client was admitted
C26_Witness ==
    \E i, j \in DOMAIN requestLog :
       /\ i < j
       /\ requestLog[i].ip = requestLog[j].ip
       /\ requestLog[i].status = "429"
       /\ requestLog[j].status = "next"
       /\ WindowStart(j) > WindowStart(i)
       /\ \E k \in DOMAIN requestLog :
             requestLog[k].ip # requestLog[i].ip /\ requestLog[k].status = "next"

-----------------------------------------------------------------------------
(* C27 *)

\* some fact has the two names as its resolved endpoints, in either direction
LinkedByAFact(a, b) ==
    \E rt \in rdf_triples :
       \/ Resolve(rt.actor) = a /\ Resolve(rt.target) = b
       \/ Resolve(rt.actor) = b /\ Resolve(rt.target) = a

\* C27: the adjacency map of the rebuild is symmetric and holds exactly the
\* pairs linked by a fact: for distinct names A and B, B is a neighbour of A
\* iff A is a neighbour of B iff some fact has resolved endpoints A and B,
\* and B is entered once under A however many such facts there are.
C27_AdjacencyIsSymmetricAndExact ==
    phase \in {"update", "done"} =>
    \A a, b \in Names : a # b =>
       /\ b \in Neighbours(a) <=> a \in Neighbours(b)
       /\ b \in Neighbours(a) <=> LinkedByAFact(a, b)
       /\ Cardinality({i \in DOMAIN adjacencyList.get[a] :
                          adjacencyList.get[a][i] = b}) <= 1

\* the graph is built from two facts that link the same two distinct
\* entities, one of them through an alias, and one from each side
C27_Witness ==
    /\ phase = "done"
    /\ \E x, y \in rdf_triples :
          /\ x.id # y.id
          /\ Resolve(x.actor) # Resolve(x.target)
          /\ Resolve(x.actor) = Resolve(y.target)
          /\ Resolve(x.target) = Resolve(y.actor)
          /\ x.actor # Resolve(x.actor)

-----------------------------------------------------------------------------
(* C28 *)

\* the entities to which the BFS has given a distance
Assigned == {n \in DOMAIN hopDistances.get : ~IsNull(hopDistances.get[n])}

\* C28: every distance the BFS assigns is strictly smaller than the
\* disconnected sentinel, whatever graph the rebuild is run on: an entity
\* reached from the principal never gets a distance equal to or above the
\* value that marks the disconnected entities.
C28_FiniteBelowSentinel ==
    phase = "bfs" =>
       \A n \in Assigned : Val(hopDistances.get[n]) < DISCONNECTED_HOP_DISTANCE

-----------------------------------------------------------------------------
(* C29 *)

\* C29: after a rebuild followed by the materialisation every canonical
\* entity of the graph has its row in canonical_entities (one row, the name
\* being the key) and the row holds the distance the rebuild computed for
\* the entity; all registry rows with the same canonical_name carry the same
\* hop distance.
C29_CanonicalEntitiesHoldDistances ==
    phase = "materialised" =>
    /\ \A n \in GraphNodes(rdf_triples) :
          /\ n \in DOMAIN canonical_entities
          /\ Some(canonical_entities[n]) = hopDistances.get[n]
    /\ \A o, q \in DOMAIN entity_aliases :
          entity_aliases[o].canonical_name = entity_aliases[q].canonical_name =>
             entity_aliases[o].hop_distance_from_principal =
                entity_aliases[q].hop_distance_from_principal

\* C29 on registries without a chain
C29_WhenNoChain ==
    ~HasChain(startAliases) => C29_CanonicalEntitiesHoldDistances

\* C29 for the chain in use: a fact names A, A is mapped to B and B to the
\* principal, and after the materialisation B has a row
C29_ChainInUse ==
    (/\ phase = "materialised"
     /\ HasChain(startAliases)
     /\ \E rt \in rdf_triples : rt.actor = "A")
    => "B" \in DOMAIN canonical_entities

\* the materialisation has run on a registry with an alias row in use and
\* has written a distance below the sentinel and the sentinel
C29_Reached ==
    /\ phase = "materialised"
    /\ \E rt \in rdf_triples : Resolve(rt.actor) # rt.actor
    /\ \E n, m \in DOMAIN canonical_entities :
          /\ canonical_entities[n] = 1
          /\ canonical_entities[m] = DISCONNECTED_HOP_DISTANCE

-----------------------------------------------------------------------------
(* C30 *)

RECURSIVE Concatenated(_)
\* the parts joined in order
Concatenated(parts) ==
    IF parts = <<>> THEN <<>> ELSE Head(parts) \o Concatenated(Tail(parts))

\* what splitText has returned is a split of its text
IsASplit ==
    /\ Concatenated(split.parts) = split.text
    /\ \A k \in DOMAIN split.parts : Len(split.parts[k]) <= MAX_CHARS
    /\ Len(split.parts) = Len(split.partIds)
    /\ IF Len(split.text) <= MAX_CHARS
       THEN split.partIds = <<split.docId>>
       ELSE \A k \in DOMAIN split.partIds :
               split.partIds[k] = split.docId \o "_part" \o ToString(k)

\* C30: for every text and docId splitText terminates, the parts it returns
\* joined in order are the text, no part is longer than MAX_CHARS, and there
\* are as many partIds as parts: docId alone for a text of at most MAX_CHARS,
\* else docId_part1 .. docId_partN in order.
C30_SplitTextSplitsExactly ==
    /\ [](split.pc = "returned" => IsASplit)
    /\ <>(split.pc = "returned")

\* splitText has returned four parts or more: one cut after a paragraph
\* break although a line break comes later in the window, one cut after a
\* single line break, and one cut at MAX_CHARS with no break in the window
C30_Witness ==
    /\ split.pc = "returned"
    /\ \E i, j, k \in 1..(Len(split.parts) - 1) :
          /\ Len(split.parts[i]) = MAX_CHARS - 2
          /\ SubSeq(split.parts[i], MAX_CHARS - 3, MAX_CHARS - 2) = <<LF, LF>>
          /\ Len(split.parts[i + 1]) >= 2
          /\ split.parts[i + 1][1] # LF
          /\ split.parts[i + 1][2] = LF
          /\ Len(split.parts[j]) = 2
          /\ split.parts[j] = <<"a", LF>>
          /\ Len(split.parts[k]) = MAX_CHARS
          /\ \A c \in 2..MAX_CHARS : split.parts[k][c] # LF

=============================================================================
